---------------------------- MODULE Spec2Model ----------------------------
(* Model of the upload engine of duld/drive.py (class DriveUploader) and   *)
(* of its collaborators as far as the engine observes them: the remote     *)
(* drive (a tree of nodes behind a local cache that sync() refreshes), the *)
(* local file system, the exclusion settings, and the concurrently running *)
(* callers of upload_path / upload_torrent; and of the process around it:  *)
(* the resources the uploader enters and leaves, and the log watcher of    *)
(* tmacd/hah.py with the IOLoop that runs its callbacks.                   *)
EXTENDS Integers, Sequences, FiniteSets, TLC

VARIABLES
    jobs,       \* DriveUploader._jobs: the set of active job keys
    sync_lock,  \* DriveUploader._sync_lock: the task holding it, or NoTask
    nodes,      \* the remote tree: node id = index into this sequence
    task,       \* per caller: the coroutine running upload_path / upload_torrent
    faults,     \* remote / HTTP failures the environment may still inject
    env,        \* settings and workload of this run (never changes)
    bundle,     \* DriveUploader's resources: _drive, _queue, _curl, _pool, _raii
    log,        \* the watched log file: the chunks written to it so far
    handler,    \* HaHEventHandler: _index, _lines
    ioloop      \* the IOLoop: callbacks added and callbacks run

\* the hosting process around the engine's jobs
host == <<bundle, log, handler, ioloop>>

vars == <<jobs, sync_lock, nodes, task, faults, env, bundle, log, handler, ioloop>>

-----------------------------------------------------------------------------
(* Bounds *)

\* failures (exceptions, None results, corrupt uploads) injected per run
MaxFaults == 3
\* failures injected into the runs with two callers or with directories
LoadFaults == 1
\* calls issued per run, all callers together
MaxCalls == 2
\* calls issued in the runs with directories
TreeCalls == 1
\* chunks the downloader writes to the log
MaxWrites == 3
\* failed path lookups counted in one poll loop
MaxPolls == 2

\* drive.py:22
RETRY_TIMES == 3

NoTask == 0
NoNode == 0
Tasks == {1, 2}

-----------------------------------------------------------------------------
(* The local file system. A path is the sequence of its components.        *)

LocalDirs == {<<"d">>, <<"p">>, <<"p", "q">>}
LocalFiles == {<<"d", "a">>, <<"d", "b">>, <<"d", "c">>, <<"d", "X">>}

\* pathlib.Path.exists
exists(p) == p \in LocalDirs \cup LocalFiles

\* pathlib.Path.is_dir
is_dir(p) == p \in LocalDirs

\* pathlib.Path.iterdir, in the order the file system lists the entries
iterdir(p) ==
    CASE p = <<"d">> -> << <<"d", "a">>, <<"d", "b">>, <<"d", "c">>, <<"d", "X">> >>
      [] p = <<"p">> -> << <<"p", "q">> >>
      [] OTHER -> << >>

\* pathlib.Path.name: the last component
name(p) == p[Len(p)]

RECURSIVE Normalize(_)
\* pathlib.Path(str): "." components are dropped
Normalize(raw) ==
    IF raw = << >> THEN << >>
    ELSE IF Head(raw) = "." THEN Normalize(Tail(raw))
    ELSE <<Head(raw)>> \o Normalize(Tail(raw))

\* pathlib.Path(torrent_root, item)
Join(root, item) == Normalize(root) \o <<item>>

\* md5sum(hasher, path): the digest of the file's content; two different
\* local files have different content
md5sum(p) == <<"md5">> \o p

\* a digest no local file has
Corrupt == <<"corrupt">>

-----------------------------------------------------------------------------
(* Settings: settings['exclude_pattern'] and the patterns served at         *)
(* settings['exclude_url']. A pattern is given by the lower-case names it   *)
(* matches; matching ignores case (re.IGNORECASE).                          *)

Lower(n) == IF n = "X" THEN "x" ELSE n

StaticPatterns == { {"x"} }
RemotePatterns == { {"c"} }

MatchesAny(patterns, n) == \E pat \in patterns : Lower(n) \in pat


-----------------------------------------------------------------------------
(* The remote drive as the engine sees it. A node created by create_folder *)
(* or by an upload is not in the local cache until a sync has pulled it in: *)
(* lookups by name or by path only find cached ("synced") nodes, and        *)
(* get_path of a node that is not cached fails.                             *)

Node(parent, nm, folder, trashed, hash, synced) ==
    [parent |-> parent, name |-> nm, is_folder |-> folder, trashed |-> trashed,
     hash |-> hash, synced |-> synced]

NodeIds == 1 .. Len(nodes)

\* drive.get_node_by_path: the cached top-level node of that path, or None
get_node_by_path(remote_path) ==
    LET hit == {n \in NodeIds : /\ nodes[n].parent = NoNode
                                /\ <<nodes[n].name>> = remote_path
                                /\ nodes[n].synced}
    IN  IF hit = {} THEN {NoNode} ELSE hit

\* drive.get_node_by_name_from_parent: a cached child of that name (the
\* drive does not say which one when several share the name), or None
get_node_by_name_from_parent(nm, parent) ==
    LET hit == {n \in NodeIds : /\ nodes[n].parent = parent
                                /\ nodes[n].name = nm
                                /\ nodes[n].synced}
    IN  IF hit = {} THEN {NoNode} ELSE hit

\* drive.get_path(node) succeeds only for a cached node
get_path_ok(n) == nodes[n].synced

\* drive.sync(): the pending changes reach the local cache
synced_nodes == [n \in NodeIds |-> [nodes[n] EXCEPT !.synced = TRUE]]

\* the cache after drive.sync() has returned: up to date, or as it was when
\* the remote has not published the changes yet
sync_outcomes == {synced_nodes} \cup (IF env.lag THEN {nodes} ELSE {})

\* the failed lookups of a poll loop, counted up to MaxPolls
CountPoll(n) == IF n < MaxPolls THEN n + 1 ELSE n

-----------------------------------------------------------------------------
(* Callers and their coroutines.                                            *)

\* a frame of the recursion _upload -> _upload_directory / _upload_file_retry
Frame(node, path) ==
    [pc |-> "upload", node |-> node, path |-> path,
     child |-> NoNode,     \* _upload_directory: child_node
     made |-> FALSE,       \* _upload_directory: create_folder was called
     todo |-> << >>,       \* _upload_directory: entries still to iterate
     ok |-> TRUE,          \* all_ok / the value returned
     res |-> << >>,        \* the values the entries returned so far
     i |-> 0,              \* _upload_file_retry: attempts started
     resyncs |-> 0,        \* _upload_file_retry: resyncs completed
     exc |-> FALSE,        \* the current attempt raised
     found |-> NoNode,     \* _upload_file: child_node found by name
     uploaded |-> NoNode,  \* _upload_file: node returned by upload_from_local
     verified |-> NoNode]  \* node whose hash was found equal to the local one

Idle(rets) ==
    [pc |-> "idle", sync |-> "no", key |-> << >>, kind |-> "none",
     rpath |-> << >>, node |-> NoNode, items |-> << >>, all_ok |-> TRUE,
     res |-> << >>,        \* the values the items returned so far
     stack |-> << >>, rets |-> rets]

Top(s) == s.stack[Len(s.stack)]

\* Between two awaits a coroutine runs without interruption: while a task is
\* in code that does not await (taking a returned value, the loop headers,
\* the static exclusion check), the event loop runs no other task.
Busy(t) ==
    \/ task[t].pc = "m_items" /\ task[t].stack = << >>
    \/ /\ task[t].stack # << >>
       /\ Top(task[t]).pc \in {"upload", "ret", "d_loop"}

Scheduled(t) == \A u \in Tasks \ {t} : ~Busy(u)
SetTop(s, f) == [s EXCEPT !.stack[Len(s.stack)] = f]
Active(t) == task[t].pc # "idle"

\* job_guard whose entry forgets to add the token
job_guard_enter_forgets(set, token) == set

\* contextlib job_guard: entering adds the token
job_guard_enter(set, token) == set \cup {token}

\* job_guard whose exit empties the whole set
job_guard_exit_clears(set, token) == {}

\* job_guard without the finally clause: an exit leaves the token behind
job_guard_exit_leaks(set, token) == set

\* job_guard: the finally clause discards the token
job_guard_exit(set, token) == set \ {token}

\* a finished call: its key, its target and how it ended
Done(key, remote_path, r) == [key |-> key, rpath |-> remote_path, ret |-> r]

\* the guarded block of upload_path / upload_torrent is left with value r
\* ("true", "false") or by an exception ("raised"): the guard's finally runs
Complete(t, r) ==
    /\ task' = [task EXCEPT ![t] =
                  Idle(Append(task[t].rets,
                              Done(task[t].key, task[t].rpath, r)))]
    /\ jobs' = job_guard_exit(jobs, task[t].key)

\* an exception that nothing between its origin and the public entry point
\* catches
Propagate(t) == Complete(t, "raised")

Bool2Ret(b) == IF b THEN "true" ELSE "false"

-----------------------------------------------------------------------------
(* The hosting process: the resources DriveUploader holds between           *)
(* __aenter__ and __aexit__, and the log watcher of tmacd/hah.py with the   *)
(* IOLoop it hands its callbacks to.                                        *)

\* the four resources, in the order __aenter__ enters them
Resources == <<"drive", "queue", "curl", "pool">>

Range(q) == {q[k] : k \in DOMAIN q}
Reverse(q) == [k \in 1 .. Len(q) |-> q[Len(q) + 1 - k]]

\* DriveUploader.__init__: every reference is None, nothing is held
NewBundle ==
    [pc |-> "new",
     stack |-> << >>,      \* __aenter__: the contexts on the local AsyncExitStack
     raii |-> {},          \* self._raii: None ({}), or the stack pop_all() returned
     refs |-> {},          \* which of _drive, _queue, _curl, _pool are not None
     acquired |-> << >>,   \* the resources entered so far, in order
     released |-> << >>]   \* the resources exited so far, in order

\* the uploader after __aenter__ has returned
EnteredBundle ==
    [NewBundle EXCEPT !.pc = "entered", !.raii = {Resources},
                      !.refs = Range(Resources), !.acquired = Resources]

\* the line terminator; every other character is one element of a text
NL == "\n"

\* "F" stands for the text "[info] GalleryDownloader: Finished download of
\* gallery: ", "a" for any other character of a line
Chars == {"F", "a", NL}

\* HaHEventHandler.__init__ on an empty log
NewHandler == [index |-> 0, lines |-> << >>, raised |-> FALSE]

\* the IOLoop: the callbacks added and not yet run, and how the others ended
NewLoop == [queue |-> << >>, ran |-> << >>]

-----------------------------------------------------------------------------
(* Workloads: who calls, with which arguments, and how many failures the    *)
(* environment injects.                                                     *)

RemoteTarget == <<"r">>
RemoteMissing == <<"nope">>

\* nodes that may exist under the target before the run
PreNames == {"d", "a"}

PreNodes(tree) ==
    LET folders == {n \in 1 .. Len(tree) : tree[n].is_folder}
    IN  {Node(q, nm, TRUE, tr, << >>, TRUE) :
            q \in folders, nm \in PreNames, tr \in BOOLEAN}
        \cup
        {Node(q, nm, FALSE, tr, h, TRUE) :
            q \in folders, nm \in {"a"}, tr \in BOOLEAN,
            h \in {md5sum(<<"d", "a">>), Corrupt}}
        \cup
        {Node(q, "d", FALSE, tr, Corrupt, TRUE) : q \in folders, tr \in BOOLEAN}

\* the target folder alone
LiveRoot == <<Node(NoNode, "r", TRUE, FALSE, << >>, TRUE)>>

\* the target folder, trashed or not
Roots == {LiveRoot, <<Node(NoNode, "r", TRUE, TRUE, << >>, TRUE)>>}

\* the target alone, or with one node under it
Trees == Roots \cup UNION {{Append(tree, n) : n \in PreNodes(tree)} : tree \in Roots}

\* two callers at once, on one local file reached through several keys
ConcurrentLoad ==
    [callers |-> {1, 2}, faults |-> LoadFaults, trees |-> {LiveRoot}, urls |-> {FALSE},
     calls |-> MaxCalls, lag |-> FALSE,
     paths |-> { <<RemoteTarget, <<"d", "a">> >>,
                 <<RemoteTarget, <<".", "d", "a">> >> },
     torrents |-> { <<RemoteTarget, "t1", <<"d">>, <<"a">> >> }]

\* one caller, whole directories and item lists
TreeLoad ==
    [callers |-> {1}, faults |-> LoadFaults, trees |-> Trees, urls |-> BOOLEAN,
     calls |-> TreeCalls, lag |-> FALSE,
     paths |-> { <<RemoteTarget, <<"d">> >>,
                 <<RemoteTarget, <<"p">> >>,
                 <<RemoteTarget, <<"gone">> >>,
                 <<RemoteMissing, <<"d">> >> },
     torrents |-> { <<RemoteTarget, "t1", <<"d">>, <<"a", "b">> >> }]

\* one caller, one file, as many failures as the retry loop can take
RetryLoad ==
    [callers |-> {1}, faults |-> MaxFaults, trees |-> Trees, urls |-> {FALSE},
     calls |-> MaxCalls, lag |-> FALSE,
     paths |-> { <<RemoteTarget, <<"d", "a">> >> },
     torrents |-> { }]

\* one caller, nested directories to create, and a remote whose change feed
\* lags: a sync may bring nothing
LagLoad ==
    [callers |-> {1}, faults |-> LoadFaults, trees |-> {LiveRoot}, urls |-> {FALSE},
     calls |-> TreeCalls, lag |-> TRUE,
     paths |-> { <<RemoteTarget, <<"p">> >> },
     torrents |-> { }]

Loads == {ConcurrentLoad, TreeLoad, RetryLoad, LagLoad}

Init ==
    /\ jobs = {}
    /\ sync_lock = NoTask
    /\ task = [t \in Tasks |-> Idle(<< >>)]
    /\ \E load \in Loads :
          /\ nodes \in load.trees
          /\ \E url \in load.urls :
                env = [callers |-> load.callers, calls |-> load.calls,
                       paths |-> load.paths, torrents |-> load.torrents,
                       exclude_url |-> url, lag |-> load.lag]
          /\ faults = load.faults
    /\ bundle = EnteredBundle
    /\ log = << >>
    /\ handler = NewHandler
    /\ ioloop = NewLoop


-----------------------------------------------------------------------------
(* The public entry points.                                                 *)

\* the entry going straight to the lookup of the target, without _sync
Enter_skips_sync(t, kind, key, remote_path, items) ==
    IF key \in jobs
    THEN /\ task' = [task EXCEPT ![t].rets =
                        Append(@, Done(key, remote_path, "false"))]
         /\ UNCHANGED jobs
    ELSE /\ jobs' = job_guard_enter(jobs, key)
         /\ task' = [task EXCEPT ![t] =
                        [@ EXCEPT !.pc = "m_resolve", !.key = key,
                                  !.kind = kind, !.rpath = remote_path,
                                  !.items = items]]

\* the entry without the membership test
Enter_unchecked(t, kind, key, remote_path, items) ==
    /\ jobs' = job_guard_enter(jobs, key)
    /\ task' = [task EXCEPT ![t] =
                   [@ EXCEPT !.pc = "m_sync", !.sync = "wait", !.key = key,
                             !.kind = kind, !.rpath = remote_path,
                             !.items = items]]

\* the body both entry points share once the key is known: reject a key that
\* is registered, else enter job_guard and go on to the first _sync
Enter(t, kind, key, remote_path, items) ==
    IF key \in jobs
    THEN /\ task' = [task EXCEPT ![t].rets =
                        Append(@, Done(key, remote_path, "false"))]
         /\ UNCHANGED jobs
    ELSE /\ jobs' = job_guard_enter(jobs, key)
         /\ task' = [task EXCEPT ![t] =
                        [@ EXCEPT !.pc = "m_sync", !.sync = "wait", !.key = key,
                                  !.kind = kind, !.rpath = remote_path,
                                  !.items = items]]

CallsOf(t) == Len(task[t].rets) + (IF Active(t) THEN 1 ELSE 0)
CallsMade ==
    Cardinality({c \in Tasks \X (1 .. env.calls) : c[2] <= CallsOf(c[1])})

CanCall(t) ==
    /\ Scheduled(t)
    /\ t \in env.callers
    /\ task[t].pc = "idle"
    /\ CallsMade < env.calls

\* DriveUploader.upload_path(remote_path, local_path), up to its first await
upload_path(t, remote_path, local_path) ==
    /\ CanCall(t)
    /\ Enter(t, "path", local_path, remote_path, <<Normalize(local_path)>>)
    /\ UNCHANGED <<sync_lock, nodes, faults, env, host>>

\* DriveUploader.upload_torrent(remote_path, torrent_id, torrent_root,
\* root_items), up to its first await
upload_torrent(t, remote_path, torrent_id, torrent_root, root_items) ==
    /\ CanCall(t)
    /\ Enter(t, "torrent", <<torrent_id>>, remote_path,
             [k \in 1 .. Len(root_items) |-> Join(torrent_root, root_items[k])])
    /\ UNCHANGED <<sync_lock, nodes, faults, env, host>>

-----------------------------------------------------------------------------
(* DriveUploader._sync, called at three places: first thing in the guarded *)
(* block, between the attempts of _upload_file_retry, and in the poll loop  *)
(* of _upload_directory.                                                    *)

\* a lock that never makes anyone wait
lock_free_always == TRUE

\* the lock can be taken
lock_free == sync_lock = NoTask

\* async with self._sync_lock: the caller waits until the lock is free
sync_acquire(t) ==
    /\ Scheduled(t)
    /\ task[t].sync = "wait"
    /\ lock_free
    /\ sync_lock' = t
    /\ task' = [task EXCEPT ![t].sync = "held"]
    /\ UNCHANGED <<jobs, nodes, faults, env, host>>

\* the for loop of _upload_file_retry running one turn too many
AfterSync_one_more(s) ==
    IF s.pc = "m_sync" THEN [s EXCEPT !.pc = "m_resolve", !.sync = "no"]
    ELSE LET f == Top(s)
         IN  IF f.pc = "d_poll_sync"
             THEN SetTop([s EXCEPT !.sync = "no"], [f EXCEPT !.pc = "d_poll"])
             ELSE IF f.i <= RETRY_TIMES
                  THEN SetTop([s EXCEPT !.sync = "no"],
                              [f EXCEPT !.pc = "f_lookup", !.i = @ + 1,
                                        !.resyncs = @ + 1, !.exc = FALSE,
                                        !.found = NoNode, !.uploaded = NoNode,
                                        !.verified = NoNode])
                  ELSE SetTop([s EXCEPT !.sync = "no"],
                              [f EXCEPT !.pc = "ret", !.resyncs = @ + 1,
                                        !.ok = FALSE])

\* where the caller of _sync goes on when _sync has returned
AfterSync(s) ==
    IF s.pc = "m_sync" THEN [s EXCEPT !.pc = "m_resolve", !.sync = "no"]
    ELSE LET f == Top(s)
         IN  IF f.pc = "d_poll_sync"
             THEN SetTop([s EXCEPT !.sync = "no"], [f EXCEPT !.pc = "d_poll"])
             ELSE \* f.pc = "f_resync": the next turn of the for loop, or its else
                  IF f.i < RETRY_TIMES
                  THEN SetTop([s EXCEPT !.sync = "no"],
                              [f EXCEPT !.pc = "f_lookup", !.i = @ + 1,
                                        !.resyncs = @ + 1, !.exc = FALSE,
                                        !.found = NoNode, !.uploaded = NoNode,
                                        !.verified = NoNode])
                  ELSE SetTop([s EXCEPT !.sync = "no"],
                              [f EXCEPT !.pc = "ret", !.resyncs = @ + 1,
                                        !.ok = FALSE])

\* the body of _sync under the lock: sleep, drain drive.sync(), release.
\* A failure of drive.sync() releases the lock and leaves _sync as an
\* exception, which none of the three callers catches.
sync_run(t) ==
    /\ Scheduled(t)
    /\ task[t].sync = "held"
    /\ sync_lock' = NoTask
    /\ \/ /\ nodes' \in sync_outcomes
          /\ task' = [task EXCEPT ![t] = AfterSync(@)]
          /\ UNCHANGED <<jobs, faults>>
       \/ /\ faults > 0
          /\ faults' = faults - 1
          /\ Propagate(t)
          /\ UNCHANGED nodes
    /\ UNCHANGED <<env, host>>

\* upload_path without the "if not node" test
resolve_unchecked(t) ==
    /\ Scheduled(t)
    /\ task[t].pc = "m_resolve"
    /\ \E n \in get_node_by_path(task[t].rpath) :
          task' = [task EXCEPT ![t].node = n, ![t].pc = "m_items"]
    /\ UNCHANGED <<jobs, sync_lock, nodes, faults, env, host>>

\* node = await self._drive.get_node_by_path(remote_path); if not node: ...
resolve(t) ==
    /\ Scheduled(t)
    /\ task[t].pc = "m_resolve"
    /\ \/ /\ \E n \in get_node_by_path(task[t].rpath) :
                IF n = NoNode
                THEN Complete(t, "false")
                ELSE /\ task' = [task EXCEPT ![t].node = n, ![t].pc = "m_items"]
                     /\ UNCHANGED jobs
          /\ UNCHANGED faults
       \/ /\ faults > 0
          /\ faults' = faults - 1
          /\ Propagate(t)
    /\ UNCHANGED <<sync_lock, nodes, env, host>>

\* the loop over the items (upload_path has one): call _upload on the next
\* one, or return the aggregate
upload_items(t) ==
    /\ Scheduled(t)
    /\ task[t].pc = "m_items"
    /\ task[t].stack = << >>
    /\ IF Len(task[t].res) = Len(task[t].items)
       THEN Complete(t, Bool2Ret(task[t].all_ok))
       ELSE /\ task' = [task EXCEPT ![t].stack =
                <<Frame(task[t].node, task[t].items[Len(task[t].res) + 1])>>]
            /\ UNCHANGED jobs
    /\ UNCHANGED <<sync_lock, nodes, faults, env, host>>


-----------------------------------------------------------------------------
(* The recursion. The running frame is the top of the task's stack.         *)

Running(t, pc) ==
    /\ Scheduled(t)
    /\ task[t].stack # << >>
    /\ task[t].sync = "no"
    /\ Top(task[t]).pc = pc

\* the frame returns value b
Return(f, b) == [f EXCEPT !.pc = "ret", !.ok = b]

\* _upload after _should_exclude said no: exists / is_dir / dispatch
dispatch(f) ==
    IF ~exists(f.path) THEN Return(f, FALSE)
    ELSE IF is_dir(f.path) THEN [f EXCEPT !.pc = "d_lookup"]
    ELSE [f EXCEPT !.pc = "f_lookup", !.i = 1]

\* _should_exclude, the loop over settings['exclude_pattern']
should_exclude_static(nm) == MatchesAny(StaticPatterns, nm)

\* _should_exclude asking exclude_url before the static patterns
upload_fetches_first(t) ==
    /\ Running(t, "upload")
    /\ LET f == Top(task[t])
       IN  task' = [task EXCEPT ![t] = SetTop(@,
                IF env.exclude_url THEN [f EXCEPT !.pc = "fetch"]
                ELSE IF should_exclude_static(name(f.path)) THEN Return(f, TRUE)
                ELSE dispatch(f))]
    /\ UNCHANGED <<jobs, sync_lock, nodes, faults, env, host>>

\* _upload up to the first await: the static patterns decide, or the
\* patterns at exclude_url have to be fetched, or nothing excludes the entry
upload(t) ==
    /\ Running(t, "upload")
    /\ LET f == Top(task[t])
       IN  task' = [task EXCEPT ![t] = SetTop(@,
                IF should_exclude_static(name(f.path)) THEN Return(f, TRUE)
                ELSE IF env.exclude_url THEN [f EXCEPT !.pc = "fetch"]
                ELSE dispatch(f))]
    /\ UNCHANGED <<jobs, sync_lock, nodes, faults, env, host>>

\* _should_exclude, the GET of exclude_url and the match against its patterns;
\* nothing catches a failure of the GET
should_exclude_fetch(t) ==
    /\ Running(t, "fetch")
    /\ \/ /\ LET f == Top(task[t])
             IN  task' = [task EXCEPT ![t] = SetTop(@,
                      IF MatchesAny(RemotePatterns, name(f.path))
                      THEN Return(f, TRUE)
                      ELSE dispatch(f))]
          /\ UNCHANGED <<jobs, faults>>
       \/ /\ faults > 0
          /\ faults' = faults - 1
          /\ Propagate(t)
    /\ UNCHANGED <<sync_lock, nodes, env, host>>

\* a frame has returned: its caller takes the value (ok = await ...; if not
\* ok: all_ok = False) and moves on to the next entry
AggregateOk(all_ok, ok) == all_ok /\ ok

return(t) ==
    /\ Running(t, "ret")
    /\ LET s == task[t]
           r == Top(s).ok
           d == Len(s.stack)
       IN  IF d = 1
           THEN task' = [task EXCEPT ![t] =
                    [s EXCEPT !.stack = << >>,
                              !.all_ok = AggregateOk(@, r),
                              !.res = Append(@, r)]]
           ELSE task' = [task EXCEPT ![t] =
                    [s EXCEPT !.stack = [k \in 1 .. d - 1 |->
                        IF k < d - 1 THEN s.stack[k]
                        ELSE [s.stack[k] EXCEPT !.ok = AggregateOk(@, r),
                                                !.res = Append(@, r),
                                                !.todo = Tail(@)]]]]
    /\ UNCHANGED <<jobs, sync_lock, nodes, faults, env, host>>


-----------------------------------------------------------------------------
(* _upload_directory                                                        *)

\* the elif of _upload_directory: a folder has to be created
needs_folder(child, parent) ==
    \/ child = NoNode
    \/ nodes[child].trashed
    \/ nodes[parent].trashed

\* child_node = await get_node_by_name_from_parent(dir_name, node) and the
\* if / elif on its result. A failure of the lookup, or of the get_path that
\* the is-a-file branch makes for its log line, is caught nowhere.
upload_directory_lookup(t) ==
    /\ Running(t, "d_lookup")
    /\ LET f == Top(task[t])
       IN  \/ /\ \E c \in get_node_by_name_from_parent(name(f.path), f.node) :
                    task' = [task EXCEPT ![t] = SetTop(@,
                       IF c # NoNode /\ ~nodes[c].is_folder
                       THEN Return([f EXCEPT !.found = c], FALSE)
                       ELSE IF needs_folder(c, f.node)
                       THEN [f EXCEPT !.pc = "d_create", !.found = c]
                       ELSE [f EXCEPT !.pc = "d_loop", !.found = c, !.child = c,
                                      !.todo = iterdir(f.path)])]
              /\ UNCHANGED <<jobs, faults>>
           \/ /\ faults > 0
              /\ faults' = faults - 1
              /\ Propagate(t)
    /\ UNCHANGED <<sync_lock, nodes, env, host>>

\* child_node = await create_folder(node, dir_name): a new folder that the
\* local cache does not hold yet, or no node (return False), or an
\* exception that is caught nowhere
upload_directory_create(t) ==
    /\ Running(t, "d_create")
    /\ LET f == Top(task[t])
       IN  \/ /\ nodes' = Append(nodes,
                     Node(f.node, name(f.path), TRUE, FALSE, << >>, FALSE))
              /\ task' = [task EXCEPT ![t] = SetTop(@,
                     [f EXCEPT !.pc = "d_poll", !.child = Len(nodes) + 1,
                               !.made = TRUE])]
              /\ UNCHANGED <<jobs, faults>>
           \/ /\ faults > 0
              /\ faults' = faults - 1
              /\ UNCHANGED nodes
              /\ \/ /\ task' = [task EXCEPT ![t] =
                             SetTop(@, Return([f EXCEPT !.made = TRUE], FALSE))]
                    /\ UNCHANGED jobs
                 \/ Propagate(t)
    /\ UNCHANGED <<sync_lock, env, host>>

\* the while True loop: get_path(child_node) breaks the loop when it
\* succeeds; when it raises, the exception is dropped and _sync is called
upload_directory_poll(t) ==
    /\ Running(t, "d_poll")
    /\ LET f == Top(task[t])
       IN  \/ /\ get_path_ok(f.child)
              /\ task' = [task EXCEPT ![t] = SetTop(@,
                     [f EXCEPT !.pc = "d_loop", !.todo = iterdir(f.path)])]
              /\ UNCHANGED faults
           \/ /\ ~get_path_ok(f.child)
              /\ task' = [task EXCEPT ![t] = SetTop([@ EXCEPT !.sync = "wait"],
                     [f EXCEPT !.pc = "d_poll_sync", !.resyncs = CountPoll(@)])]
              /\ UNCHANGED faults
           \/ /\ get_path_ok(f.child)
              /\ faults > 0
              /\ faults' = faults - 1
              /\ task' = [task EXCEPT ![t] = SetTop([@ EXCEPT !.sync = "wait"],
                     [f EXCEPT !.pc = "d_poll_sync", !.resyncs = CountPoll(@)])]
    /\ UNCHANGED <<jobs, sync_lock, nodes, env, host>>

\* the loop of _upload_directory stopping at the first failure
upload_directory_loop_fail_fast(t) ==
    /\ Running(t, "d_loop")
    /\ LET f == Top(task[t])
       IN  IF f.todo = << >> \/ ~f.ok
           THEN task' = [task EXCEPT ![t] = SetTop(@, [f EXCEPT !.pc = "ret"])]
           ELSE task' = [task EXCEPT ![t].stack =
                            Append(@, Frame(f.child, Head(f.todo)))]
    /\ UNCHANGED <<jobs, sync_lock, nodes, faults, env, host>>

\* for child_path in local_path.iterdir(): ok = await self._upload(...);
\* after the last entry: return all_ok
upload_directory_loop(t) ==
    /\ Running(t, "d_loop")
    /\ LET f == Top(task[t])
       IN  IF f.todo = << >>
           THEN task' = [task EXCEPT ![t] = SetTop(@, [f EXCEPT !.pc = "ret"])]
           ELSE task' = [task EXCEPT ![t].stack =
                            Append(@, Frame(f.child, Head(f.todo)))]
    /\ UNCHANGED <<jobs, sync_lock, nodes, faults, env, host>>

-----------------------------------------------------------------------------
(* _upload_file_retry and _upload_file                                      *)

\* except Exception in _upload_file_retry: the attempt counts as failed and
\* _sync is called before the loop goes on
upload_file_retry_except(s, f) ==
    SetTop([s EXCEPT !.sync = "wait"], [f EXCEPT !.pc = "f_resync", !.exc = TRUE])

\* one attempt fails by an exception of a remote call
upload_file_raises(t) ==
    /\ faults > 0
    /\ faults' = faults - 1
    /\ task' = [task EXCEPT ![t] = upload_file_retry_except(@, Top(@))]
    /\ UNCHANGED <<jobs, nodes>>

\* _upload_file uploading whatever it found
upload_file_branch_uploads_anyway(f, c) ==
    IF c # NoNode /\ ~nodes[c].trashed /\ nodes[c].is_folder
    THEN Return([f EXCEPT !.found = c], FALSE)
    ELSE [f EXCEPT !.pc = "f_upload", !.found = c]

\* what _upload_file does with the child it found: the first if (a live
\* child) and the second (no child, or a trashed one)
upload_file_branch(f, c) ==
    IF c # NoNode /\ ~nodes[c].trashed
    THEN IF nodes[c].is_folder
         THEN Return([f EXCEPT !.found = c], FALSE)
         ELSE [f EXCEPT !.pc = "f_verify", !.found = c]
    ELSE [f EXCEPT !.pc = "f_upload", !.found = c]

\* remote_path = await get_path(node); child_node = await
\* get_node_by_name_from_parent(file_name, node)
upload_file_lookup(t) ==
    /\ Running(t, "f_lookup")
    /\ LET f == Top(task[t])
       IN  \/ /\ get_path_ok(f.node)
              /\ \E c \in get_node_by_name_from_parent(name(f.path), f.node) :
                    task' = [task EXCEPT ![t] = SetTop(@, upload_file_branch(f, c))]
              /\ UNCHANGED <<jobs, nodes, faults>>
           \/ /\ ~get_path_ok(f.node)
              /\ task' = [task EXCEPT ![t] = upload_file_retry_except(@, f)]
              /\ UNCHANGED <<jobs, nodes, faults>>
           \/ upload_file_raises(t)
    /\ UNCHANGED <<sync_lock, env, host>>

\* media_info = await get_media_info(local_path); child_node = await
\* upload_from_local(...): a new file node, whose hash is the local file's
\* unless the transfer corrupted it
upload_file_upload(t) ==
    /\ Running(t, "f_upload")
    /\ LET f == Top(task[t])
           new == Len(nodes) + 1
       IN  \/ /\ nodes' = Append(nodes,
                     Node(f.node, name(f.path), FALSE, FALSE, md5sum(f.path), FALSE))
              /\ task' = [task EXCEPT ![t] = SetTop(@,
                     [f EXCEPT !.pc = "f_verify", !.uploaded = new])]
              /\ UNCHANGED <<jobs, faults>>
           \/ /\ faults > 0
              /\ faults' = faults - 1
              /\ nodes' = Append(nodes,
                     Node(f.node, name(f.path), FALSE, FALSE, Corrupt, FALSE))
              /\ task' = [task EXCEPT ![t] = SetTop(@,
                     [f EXCEPT !.pc = "f_verify", !.uploaded = new])]
              /\ UNCHANGED jobs
           \/ upload_file_raises(t)
    /\ UNCHANGED <<sync_lock, env, host>>

\* _verify_remote_file that compares nothing
verify_remote_file_skipped(local_path, remote_hash) == TRUE

\* _verify_remote_file: local_hash != remote_hash
verify_remote_file(local_path, remote_hash) == md5sum(local_path) = remote_hash

\* _upload_file whose mismatch is handled like an exception: resync and retry
upload_file_verify_retries(t) ==
    /\ Running(t, "f_verify")
    /\ LET f == Top(task[t])
           c == IF f.uploaded # NoNode THEN f.uploaded ELSE f.found
       IN  \/ /\ task' = [task EXCEPT ![t] =
                     IF verify_remote_file(f.path, nodes[c].hash)
                     THEN SetTop(@, Return([f EXCEPT !.verified = c], TRUE))
                     ELSE upload_file_retry_except(@, f)]
              /\ UNCHANGED <<jobs, nodes, faults>>
           \/ upload_file_raises(t)
    /\ UNCHANGED <<sync_lock, env, host>>

\* ok = await self._verify_remote_file(local_path, remote_path,
\* child_node.hash_), for the child found or for the node just uploaded
upload_file_verify(t) ==
    /\ Running(t, "f_verify")
    /\ LET f == Top(task[t])
           c == IF f.uploaded # NoNode THEN f.uploaded ELSE f.found
       IN  \/ /\ task' = [task EXCEPT ![t] = SetTop(@,
                     IF verify_remote_file(f.path, nodes[c].hash)
                     THEN Return([f EXCEPT !.verified = c], TRUE)
                     ELSE Return(f, FALSE))]
              /\ UNCHANGED <<jobs, nodes, faults>>
           \/ upload_file_raises(t)
    /\ UNCHANGED <<sync_lock, env, host>>

-----------------------------------------------------------------------------

Next ==
    \/ \E t \in Tasks : \E c \in env.paths : upload_path(t, c[1], c[2])
    \/ \E t \in Tasks : \E c \in env.torrents :
          upload_torrent(t, c[1], c[2], c[3], c[4])
    \/ \E t \in Tasks : sync_acquire(t)
    \/ \E t \in Tasks : sync_run(t)
    \/ \E t \in Tasks : resolve(t)
    \/ \E t \in Tasks : upload_items(t)
    \/ \E t \in Tasks : upload(t)
    \/ \E t \in Tasks : should_exclude_fetch(t)
    \/ \E t \in Tasks : return(t)
    \/ \E t \in Tasks : upload_directory_lookup(t)
    \/ \E t \in Tasks : upload_directory_create(t)
    \/ \E t \in Tasks : upload_directory_poll(t)
    \/ \E t \in Tasks : upload_directory_loop(t)
    \/ \E t \in Tasks : upload_file_lookup(t)
    \/ \E t \in Tasks : upload_file_upload(t)
    \/ \E t \in Tasks : upload_file_verify(t)

Spec == Init /\ [][Next]_vars

\* the steps of caller t's coroutine: everything but the issuing of a call
TaskStep(t) ==
    \/ sync_acquire(t)
    \/ sync_run(t)
    \/ resolve(t)
    \/ upload_items(t)
    \/ upload(t)
    \/ should_exclude_fetch(t)
    \/ return(t)
    \/ upload_directory_lookup(t)
    \/ upload_directory_create(t)
    \/ upload_directory_poll(t)
    \/ upload_directory_loop(t)
    \/ upload_file_lookup(t)
    \/ upload_file_upload(t)
    \/ upload_file_verify(t)

\* the event loop runs every coroutine that can go on, and every remote
\* call, sync, fetch and hash computation comes back
FairSpec == Spec /\ \A t \in Tasks : WF_vars(TaskStep(t))

-----------------------------------------------------------------------------
(* tmacd/hah.py: the watcher of the downloader's log. A text is a sequence  *)
(* of characters; the log is the sequence of the chunks written to it.      *)

\* what the downloader writes in one go: one or two characters
Chunks == {<<c>> : c \in Chars} \cup {<<c, d>> : c, d \in Chars}

RECURSIVE Concat(_)
\* the content of the file: its chunks one after the other
Concat(chunks) ==
    IF chunks = << >> THEN << >> ELSE Head(chunks) \o Concat(Tail(chunks))

\* op.getsize(log_path)
getsize == Len(Concat(log))

RECURSIVE readlines(_)
\* fin.readlines(): the text cut after every newline; the last line has no
\* newline when the text does not end with one
readlines(text) ==
    LET ends == {k \in 1 .. Len(text) : text[k] = NL}
    IN  IF text = << >> THEN << >>
        ELSE IF ends = {} THEN <<text>>
        ELSE LET k == CHOOSE e \in ends : \A j \in ends : e <= j
             IN  <<SubSeq(text, 1, k)>> \o readlines(SubSeq(text, k + 1, Len(text)))

\* line.endswith('\n')
endswith_newline(line) == line # << >> /\ line[Len(line)] = NL

\* where the "\n$" of the pattern can stand in the line: at its end, or
\* before a newline that ends it
MatchEnds(line) ==
    {n \in 2 .. Len(line) :
        /\ line[n] = NL
        /\ \A k \in 2 .. n - 1 : line[k] # NL
        /\ n = Len(line) \/ (n = Len(line) - 1 /\ line[Len(line)] = NL)}

\* re.match(r'\[info\] GalleryDownloader: Finished download of gallery:
\* (.*)\n$', line)
match(line) == line # << >> /\ line[1] = "F" /\ MatchEnds(line) # {}

\* m.group(1): the greedy (.*)
group1(line) ==
    SubSeq(line, 2, (CHOOSE n \in MatchEnds(line) : \A j \in MatchEnds(line) : j <= n) - 1)

\* settings['upload_to'] and the download_path the handler was built with
upload_to == RemoteTarget
download_path == <<"d">>

\* the arguments _push_lines hands to add_callback after the callable
callback_args(nm) == <<upload_to, download_path, <<nm>>>>

RECURSIVE push_loop(_, _)
\* the while loop of _push_lines on the buffer q, with the callbacks c added
\* so far: a line without its newline waits if it is alone, else it is
\* popped and joined with the next element; the line is matched; one more
\* element is popped
push_loop(q, c) ==
    IF q = << >> THEN [lines |-> q, queue |-> c]
    ELSE IF ~endswith_newline(q[1]) /\ Len(q) <= 1 THEN [lines |-> q, queue |-> c]
    ELSE LET joined == ~endswith_newline(q[1])
             rest == IF joined THEN Tail(q) ELSE q
             line == IF joined THEN q[1] \o q[2] ELSE q[1]
         IN  push_loop(Tail(rest),
                       IF match(line) THEN Append(c, callback_args(group1(line)))
                       ELSE c)

\* HaHEventHandler._push_lines(lines): self._lines.extend(lines), the loop
push_lines(self_lines, lines, queue) == push_loop(self_lines \o lines, queue)

\* the names on_modified can resolve: its parameters and locals, and the
\* globals of the module tmacd/hah.py
on_modified_scope ==
    {"self", "event", "fin", "lines",
     "os", "op", "re", "ti", "Observer", "PatternMatchingEventHandler",
     "settings", "HaHEventHandler", "HaHListener"}

\* the handler lives while the uploader is entered
Watching == bundle.pc = "entered"

\* the downloader appends a chunk to the log
log_write(chunk) ==
    /\ Watching
    /\ Len(log) < MaxWrites
    /\ log' = Append(log, chunk)
    /\ UNCHANGED <<jobs, sync_lock, nodes, task, faults, env, bundle, handler, ioloop>>

\* on_modified from the size test on: a shrunken log is read from its start;
\* the text from _index to the end is read, _index moves to the end, and the
\* lines go to _push_lines
read_and_push_lines ==
    LET text == Concat(log)
        from == IF getsize < handler.index THEN 0 ELSE handler.index
        lines == readlines(SubSeq(text, from + 1, Len(text)))
        pushed == push_lines(handler.lines, lines, ioloop.queue)
    IN  /\ handler' = [handler EXCEPT !.index = Len(text), !.lines = pushed.lines]
        /\ ioloop' = [ioloop EXCEPT !.queue = pushed.queue]

\* the watchdog thread delivers a modification event of the log:
\* on_modified evaluates op.getsize(log_path), and a name that is neither
\* local nor global raises NameError before anything is read
on_modified ==
    /\ Watching
    /\ getsize # handler.index
    /\ IF "log_path" \in on_modified_scope
       THEN read_and_push_lines
       ELSE /\ handler' = [handler EXCEPT !.raised = TRUE]
            /\ UNCHANGED ioloop
    /\ UNCHANGED <<jobs, sync_lock, nodes, task, faults, env, bundle, log>>

\* the handler's work on the text written since it last read, as on_modified
\* does it once the size is known
on_modified_read ==
    /\ Watching
    /\ getsize # handler.index
    /\ read_and_push_lines
    /\ UNCHANGED <<jobs, sync_lock, nodes, task, faults, env, bundle, log>>

\* def upload_torrent(self, remote_path, torrent_id, torrent_root, root_items)
upload_torrent_parameters ==
    <<"remote_path", "torrent_id", "torrent_root", "root_items">>

\* the IOLoop runs the oldest callback: upload_torrent(*args). A call that
\* does not bind every parameter raises TypeError before the body runs
run_callback ==
    /\ ioloop.queue # << >>
    /\ LET args == Head(ioloop.queue)
           ran(outcome) == [queue |-> Tail(ioloop.queue),
                            ran |-> Append(ioloop.ran,
                                       [args |-> args, outcome |-> outcome])]
       IN  IF Len(args) = Len(upload_torrent_parameters)
           THEN /\ \E t \in Tasks :
                      /\ task[t].pc = "idle"
                      /\ Enter(t, "torrent", <<args[2]>>, args[1],
                               [k \in 1 .. Len(args[4]) |-> Join(args[3], args[4][k])])
                /\ ioloop' = ran("called")
           ELSE /\ ioloop' = ran("TypeError")
                /\ UNCHANGED <<jobs, task>>
    /\ UNCHANGED <<sync_lock, nodes, faults, env, bundle, log, handler>>

-----------------------------------------------------------------------------
(* DriveUploader.__aenter__ / __aexit__                                     *)

\* an exit stack that leaves its contexts in the order they were entered
aclose_in_entry_order(stack) == stack

\* AsyncExitStack leaving its with block, or aclose(): the contexts are
\* exited last in, first out
aclose(stack) == Reverse(stack)

\* __aenter__ up to its first await: the exit stack is created and the
\* configuration loaded; a failure there finds nothing to release
aenter_begin ==
    /\ bundle.pc = "new"
    /\ \/ bundle' = [bundle EXCEPT !.pc = "entering"]
       \/ bundle' = [bundle EXCEPT !.pc = "failed"]
    /\ UNCHANGED <<jobs, sync_lock, nodes, task, faults, env, log, handler, ioloop>>

\* the next resource is entered and assigned to its field; after the last
\* one pop_all() moves the contexts to self._raii. When entering it fails,
\* the with block of __aenter__ exits what the stack holds and the exception
\* leaves __aenter__
aenter_acquire ==
    /\ bundle.pc = "entering"
    /\ LET r == Resources[Len(bundle.stack) + 1]
           stack == Append(bundle.stack, r)
       IN  \/ bundle' =
                 IF Len(stack) < Len(Resources)
                 THEN [bundle EXCEPT !.stack = stack, !.refs = @ \cup {r},
                                     !.acquired = Append(@, r)]
                 ELSE [bundle EXCEPT !.pc = "entered", !.stack = << >>,
                                     !.raii = {stack}, !.refs = @ \cup {r},
                                     !.acquired = Append(@, r)]
           \/ bundle' = [bundle EXCEPT !.pc = "failed", !.stack = << >>,
                                       !.released = @ \o aclose(bundle.stack)]
    /\ UNCHANGED <<jobs, sync_lock, nodes, task, faults, env, log, handler, ioloop>>

\* __aexit__: await self._raii.aclose(), then every field is set to None
aexit ==
    /\ bundle.pc = "entered"
    /\ \E stack \in bundle.raii :
          bundle' = [bundle EXCEPT !.pc = "exited", !.raii = {}, !.refs = {},
                                   !.released = @ \o aclose(stack)]
    /\ UNCHANGED <<jobs, sync_lock, nodes, task, faults, env, log, handler, ioloop>>

-----------------------------------------------------------------------------
(* The hosting process: the uploader is entered, the watcher follows the    *)
(* log while it is, the IOLoop runs what the watcher adds.                  *)

HostInit ==
    /\ jobs = {}
    /\ sync_lock = NoTask
    /\ nodes = LiveRoot
    /\ task = [t \in Tasks |-> Idle(<< >>)]
    /\ faults = 0
    /\ env = [callers |-> {}, calls |-> 0, paths |-> {}, torrents |-> {},
              exclude_url |-> FALSE, lag |-> FALSE]
    /\ bundle = NewBundle
    /\ log = << >>
    /\ handler = NewHandler
    /\ ioloop = NewLoop

HostNext ==
    \/ aenter_begin
    \/ aenter_acquire
    \/ aexit
    \/ \E chunk \in Chunks : log_write(chunk)
    \/ on_modified
    \/ on_modified_read
    \/ run_callback

HostSpec == HostInit /\ [][HostNext]_vars

-----------------------------------------------------------------------------
(* Properties                                                               *)

Last(q) == q[Len(q)]
Depth(t) == Len(task[t].stack)

\* task t is inside _upload_file for local path p: looking the child up,
\* uploading, or verifying
Processing(t, p) ==
    /\ task[t].stack # << >>
    /\ Top(task[t]).pc \in {"f_lookup", "f_upload", "f_verify"}
    /\ Top(task[t]).path = p

\* in this step idle task t issues a call (accepted or not)
CallStep(t) == task[t].pc = "idle" /\ task'[t] # task[t]

\* the key of the call that t issues in this step
CalledKey(t) ==
    IF task'[t].pc = "idle" THEN Last(task'[t].rets).key ELSE task'[t].key

\* some other task's call with key K has not completed yet
InFlight(t, K) == \E u \in Tasks \ {t} : Active(u) /\ task[u].key = K

\* C1, state part: no two active jobs have the same key
C1_OneJobPerKey ==
    \A t, u \in Tasks : (t # u /\ Active(t) /\ Active(u)) => task[t].key # task[u].key

\* C1, step part: a call issued while a call with the same key is in flight
\* returns false at once and changes nothing but the caller's own result:
\* the registry, the lock, the remote tree and every other task stay as they are
C1_DuplicateRejected ==
    \A t \in Tasks :
        (CallStep(t) /\ InFlight(t, CalledKey(t))) =>
            /\ task'[t].pc = "idle"
            /\ task'[t].rets = Append(task[t].rets, Last(task'[t].rets))
            /\ Last(task'[t].rets).ret = "false"
            /\ [task' EXCEPT ![t] = task[t]] = task
            /\ UNCHANGED <<jobs, sync_lock, nodes, faults>>

\* C1: a call with a key whose earlier call is still in flight returns false
\* immediately and has no side effects; at most one job per key is active
C1_DuplicateSuppression == [] C1_OneJobPerKey /\ [][C1_DuplicateRejected]_vars

\* C1 witness: a call was rejected while the job holding its key is still active
C1_Witness ==
    \E t, u \in Tasks :
        /\ t # u
        /\ Active(u)
        /\ ~Active(t)
        /\ task[t].rets # << >>
        /\ Last(task[t].rets) = Done(task[u].key, task[u].rpath, "false")
        /\ jobs = {task[u].key}

\* C2: the registry holds exactly the keys of the calls in flight, so the key
\* of a call that has completed - by true, false or an exception - is absent
\* and a later call with that key is accepted
C2_NoLeak == jobs = {task[t].key : t \in {u \in Tasks : Active(u)}}

\* C2 witness: a call that ended by an exception, and a later call with the
\* same key that was accepted
C2_Witness ==
    \E t \in Tasks :
        /\ Active(t)
        /\ Len(task[t].rets) = 1
        /\ task[t].rets[1].ret = "raised"
        /\ task[t].rets[1].key = task[t].key
        /\ task[t].key \in jobs

\* C3 as claimed: no two active jobs process the same local path at once
C3_OneJobPerLocalPath ==
    \A t, u \in Tasks : \A p \in LocalFiles :
        (Processing(t, p) /\ Processing(u, p)) => t = u

\* C3 as amended: two active jobs that process the same local path at once
\* have different job keys (the registry excludes equal keys, not equal paths)
C3_SamePathOnlyUnderDistinctKeys ==
    \A t, u \in Tasks : \A p \in LocalFiles :
        (t # u /\ Processing(t, p) /\ Processing(u, p)) =>
            /\ task[t].key # task[u].key
            /\ {task[t].key, task[u].key} \subseteq jobs

\* C3 witness: two jobs with different keys inside _upload_file for one path
C3_Witness ==
    \E t, u \in Tasks : \E p \in LocalFiles :
        /\ t # u
        /\ Processing(t, p)
        /\ Processing(u, p)
        /\ task[t].key # task[u].key

\* C4 as claimed: no call ends by an exception
C4_NothingPropagates ==
    \A t \in Tasks : \A k \in DOMAIN task[t].rets : task[t].rets[k].ret # "raised"


\* the frames of _upload_file_retry, wherever they are on a stack
RetryFrames ==
    {f \in UNION {{task[t].stack[k] : k \in DOMAIN task[t].stack} : t \in Tasks} :
        f.i > 0}

\* C5: at most RETRY_TIMES attempts are started; every attempt before the
\* current one raised and was followed by exactly one resync; the loop
\* returns false by exhaustion only after RETRY_TIMES raised attempts and
\* RETRY_TIMES resyncs; an attempt that returns ends the loop with its value
\* (true on the third attempt after two raised ones, if the upload verifies)
C5_RetryBound ==
    \A f \in RetryFrames :
        /\ f.i <= RETRY_TIMES
        /\ f.pc \in {"f_lookup", "f_upload", "f_verify"} =>
              (~f.exc /\ f.resyncs = f.i - 1)
        /\ f.pc = "f_resync" => (f.exc /\ f.resyncs = f.i - 1)
        /\ f.pc = "ret" =>
              IF f.exc
              THEN f.i = RETRY_TIMES /\ f.resyncs = RETRY_TIMES /\ ~f.ok
              ELSE /\ f.resyncs = f.i - 1
                   /\ (f.uploaded # NoNode /\ f.verified = f.uploaded) => f.ok

\* C5 witness: the loop gave up after three raised attempts and three resyncs
C5_Witness ==
    \E f \in RetryFrames :
        f.pc = "ret" /\ f.exc /\ f.i = 3 /\ f.resyncs = 3 /\ ~f.ok

\* two raised attempts, then a third that uploads and verifies: true
C5_ThirdAttemptSucceeds ==
    \E f \in RetryFrames :
        /\ f.pc = "ret" /\ ~f.exc /\ f.i = 3 /\ f.resyncs = 2
        /\ f.uploaded # NoNode /\ f.ok

\* the remote child c is a live file whose hash is that of local file p
LiveCopy(c, p) ==
    /\ c # NoNode
    /\ ~nodes[c].trashed
    /\ ~nodes[c].is_folder
    /\ nodes[c].hash = md5sum(p)

\* C6, state part: an attempt that found a live file of the same name with
\* the local file's hash uploads nothing, and when it returns it returns true
C6_FoundCopyNotUploaded ==
    \A f \in RetryFrames :
        (~f.exc /\ LiveCopy(f.found, f.path)) =>
            /\ f.uploaded = NoNode
            /\ f.pc \in {"f_verify", "ret"}
            /\ f.pc = "ret" => (f.ok /\ f.verified = f.found)

\* C6, step part: the step that verifies a child found by name writes nothing
\* to the remote tree
C6_VerifyWritesNothing ==
    \A t \in Tasks :
        (/\ task[t].stack # << >>
         /\ Top(task[t]).pc = "f_verify"
         /\ Top(task[t]).uploaded = NoNode
         /\ task'[t] # task[t]) => nodes' = nodes

\* C6: uploading a file whose live remote copy has the same hash returns
\* true, every time, without any remote write
C6_Idempotent == [] C6_FoundCopyNotUploaded /\ [][C6_VerifyWritesNothing]_vars

\* C6 witness: the file was uploaded by a first call that returned true; the
\* second call with the same arguments found the copy and returns true with
\* the remote tree as the first call left it
C6_Witness ==
    \E t \in Tasks :
        /\ Len(task[t].rets) = 1
        /\ task[t].rets[1] = Done(task[t].key, task[t].rpath, "true")
        /\ task[t].stack # << >>
        /\ LET f == Top(task[t])
           IN  /\ f.pc = "ret" /\ f.i = 1 /\ f.ok
               /\ LiveCopy(f.found, f.path)
               /\ f.uploaded = NoNode
               /\ f.found = Len(nodes)


AllFrames ==
    UNION {{task[t].stack[k] : k \in DOMAIN task[t].stack} : t \in Tasks}

AllTrue(q) == \A k \in DOMAIN q : q[k]

\* C7, state part: a directory that returns from its loop has attempted every entry and
\* returns true exactly if every entry returned true; so does the item loop
\* of the entry points; while a loop runs, its aggregate is the conjunction
\* of the values returned so far and the entries attempted are a prefix
C7_AggregateAnd ==
    /\ \A f \in AllFrames :
          /\ f.pc = "d_loop" =>
                /\ Len(f.res) + Len(f.todo) = Len(iterdir(f.path))
                /\ f.ok = AllTrue(f.res)
          /\ (f.pc = "ret" /\ f.child # NoNode) =>
                /\ Len(f.res) = Len(iterdir(f.path))
                /\ f.ok = AllTrue(f.res)
    /\ \A t \in Tasks :
          Active(t) =>
             /\ Len(task[t].res) <= Len(task[t].items)
             /\ task[t].all_ok = AllTrue(task[t].res)

\* C7, step part: the item loop of an entry point returns only after the
\* last item, with the conjunction of the items' values
C7_ItemLoopReturns ==
    \A t \in Tasks :
        (/\ task[t].pc = "m_items"
         /\ task[t].stack = << >>
         /\ task'[t].pc = "idle") =>
            /\ Len(task[t].res) = Len(task[t].items)
            /\ Last(task'[t].rets).ret = Bool2Ret(AllTrue(task[t].res))

\* C7: aggregate-AND, not fail-fast
C7_AggregateNotFailFast == [] C7_AggregateAnd /\ [][C7_ItemLoopReturns]_vars

\* C7 witness: a directory of three files (and an excluded entry) where
\* exactly the second file failed: the third was still uploaded and
\* verified, and the directory returns false
C7_Witness ==
    \E f \in AllFrames :
        /\ f.pc = "ret"
        /\ f.path = <<"d">>
        /\ f.res = <<TRUE, FALSE, TRUE, TRUE>>
        /\ ~f.ok
        /\ \E n \in NodeIds : /\ nodes[n].parent = f.child
                              /\ nodes[n].name = "c"
                              /\ nodes[n].hash = md5sum(<<"d", "c">>)

\* the item loop of upload_torrent went past a failed item
C7_TorrentWitness ==
    \E t \in Tasks :
        /\ task[t].kind = "torrent"
        /\ task[t].pc = "m_items" /\ task[t].stack = << >>
        /\ task[t].res = <<FALSE, TRUE>>
        /\ ~task[t].all_ok

\* C8, state part: an entry whose name matches a static pattern is never at
\* a step that fetches exclude_url, looks a child up, creates a folder,
\* uploads, verifies or syncs; it returns true
C8_ExcludedNeverLookedUp ==
    \A f \in AllFrames :
        MatchesAny(StaticPatterns, name(f.path)) =>
            /\ f.pc \in {"upload", "ret"}
            /\ f.pc = "ret" => f.ok
            /\ f.child = NoNode /\ f.found = NoNode /\ f.uploaded = NoNode

\* C8, step part: the step that decides such an entry changes nothing remote
\* and can not fail
C8_ExcludedStepIsLocal ==
    \A t \in Tasks :
        (/\ task[t].stack # << >>
         /\ Top(task[t]).pc = "upload"
         /\ MatchesAny(StaticPatterns, name(Top(task[t]).path))
         /\ task'[t] # task[t]) =>
            /\ Depth(t)' = Depth(t)
            /\ Top(task[t])' = [Top(task[t]) EXCEPT !.pc = "ret", !.ok = TRUE]
            /\ UNCHANGED <<jobs, sync_lock, nodes, faults>>

\* C8: a statically excluded entry reports success with no remote call
C8_Exclusion == [] C8_ExcludedNeverLookedUp /\ [][C8_ExcludedStepIsLocal]_vars

\* C8 witness: the entry X of directory d, which the pattern x excludes
\* whatever the case, has returned true while exclude_url is configured
C8_Witness ==
    \E f \in AllFrames :
        /\ f.path = <<"d", "X">>
        /\ f.pc = "ret"
        /\ f.ok
        /\ env.exclude_url


\* C9, state part: a job whose target has not been resolved to a node has
\* not entered the recursion
C9_NoRecursionWithoutTarget ==
    \A t \in Tasks :
        (Active(t) /\ task[t].node = NoNode) =>
            /\ task[t].stack = << >>
            /\ task[t].pc \in {"m_sync", "m_resolve"}
            /\ task[t].res = << >>

\* C9, step part: when get_node_by_path answers that the target does not
\* exist, the call returns false in that very step: the key is released,
\* nothing is pushed, nothing remote changes, no sync is requested
C9_MissingTargetReturnsFalse ==
    \A t \in Tasks :
        (/\ task[t].pc = "m_resolve"
         /\ get_node_by_path(task[t].rpath) = {NoNode}
         /\ task'[t] # task[t]
         /\ faults' = faults) =>
            /\ task'[t] = Idle(Append(task[t].rets,
                               Done(task[t].key, task[t].rpath, "false")))
            /\ task[t].key \notin jobs'
            /\ UNCHANGED <<nodes, sync_lock>>

\* C9: an unresolvable target makes the call return false without recursion
C9_TargetNotFound ==
    [] C9_NoRecursionWithoutTarget /\ [][C9_MissingTargetReturnsFalse]_vars

\* C9 witness: the only call of the run so far named the missing target and
\* has returned false; the registry is empty and the remote tree is as it was
C9_Witness ==
    \E t \in Tasks :
        /\ \A u \in Tasks \ {t} : ~Active(u) /\ task[u].rets = << >>
        /\ ~Active(t)
        /\ Len(task[t].rets) = 1
        /\ task[t].rets[1].rpath = RemoteMissing
        /\ task[t].rets[1].ret = "false"
        /\ jobs = {}
        /\ nodes \in Trees

\* C10, state part: at most one task is inside the locked body of _sync, and
\* it is the holder of the lock
C10_OneSyncAtATime ==
    /\ \A t, u \in Tasks :
          (task[t].sync = "held" /\ task[u].sync = "held") => t = u
    /\ \A t \in Tasks : task[t].sync = "held" <=> sync_lock = t

\* C10, step part: a task enters the locked body only when no sync is running
C10_WaitsForRunningSync ==
    \A u \in Tasks :
        (task[u].sync = "wait" /\ task'[u].sync = "held") =>
            \A t \in Tasks : task[t].sync # "held"

\* C10: sync is globally serialized
C10_SyncSerialized == [] C10_OneSyncAtATime /\ [][C10_WaitsForRunningSync]_vars

\* C10 witness: one job's sync is running while another job, which asked
\* for the resync between two attempts, waits for the lock
C10_Witness ==
    \E t, u \in Tasks :
        /\ task[t].sync = "held"
        /\ task[u].sync = "wait"
        /\ task[u].stack # << >>
        /\ Top(task[u]).pc = "f_resync"

\* the remote child c is a live folder
LiveFolder(c) == c # NoNode /\ ~nodes[c].trashed /\ nodes[c].is_folder

\* the remote child c is a live file whose hash is not that of local file p
LiveMismatch(c, p) ==
    /\ c # NoNode
    /\ ~nodes[c].trashed
    /\ ~nodes[c].is_folder
    /\ nodes[c].hash # md5sum(p)

\* C12, state part: an attempt that returned false was the last one and no
\* resync followed it (one attempt and no resync at all when no attempt
\* raised); a live folder of the file's name, or a live file with another
\* hash, makes the attempt return false and nothing is uploaded; an uploaded
\* node with another hash makes it return false
C12_FalseIsFinal ==
    \A f \in RetryFrames :
        /\ (f.pc = "ret" /\ ~f.exc /\ ~f.ok) => f.resyncs = f.i - 1
        /\ (~f.exc /\ LiveFolder(f.found)) =>
              (f.pc = "ret" /\ ~f.ok /\ f.uploaded = NoNode)
        /\ (~f.exc /\ LiveMismatch(f.found, f.path)) =>
              /\ f.uploaded = NoNode
              /\ f.pc \in {"f_verify", "ret"}
              /\ f.pc = "ret" => ~f.ok
        /\ (~f.exc /\ f.pc = "ret" /\ f.uploaded # NoNode
              /\ nodes[f.uploaded].hash # md5sum(f.path)) => ~f.ok

\* C12, step part: the step in which an attempt finds the type collision or
\* the mismatch returns false from _upload_file_retry at once: no resync is
\* requested, no further attempt is started, nothing is written
C12_NoRetryAfterFalse ==
    \A t \in Tasks :
        (/\ task[t].stack # << >>
         /\ Top(task[t]).pc \in {"f_lookup", "f_verify"}
         /\ \/ /\ Top(task[t]).pc = "f_verify"
               /\ ~verify_remote_file(Top(task[t]).path,
                     nodes[IF Top(task[t]).uploaded # NoNode
                           THEN Top(task[t]).uploaded
                           ELSE Top(task[t]).found].hash)
            \/ /\ Top(task[t]).pc = "f_lookup"
               /\ Depth(t)' = Depth(t)
               /\ LiveFolder(Top(task[t]).found')
         /\ task'[t] # task[t]
         /\ faults' = faults) =>
            /\ Depth(t)' = Depth(t)
            /\ Top(task[t])'.pc = "ret"
            /\ ~Top(task[t])'.ok
            /\ Top(task[t])'.i = Top(task[t]).i
            /\ Top(task[t])'.resyncs = Top(task[t]).resyncs
            /\ task'[t].sync = "no"
            /\ nodes' = nodes

\* C12: a single-file attempt that returns false is not retried
C12_NonTransientNotRetried == [] C12_FalseIsFinal /\ [][C12_NoRetryAfterFalse]_vars

\* C12 witness: the first attempt found a live file with another hash; the
\* file upload has returned false after that attempt, without a resync and
\* without an upload
C12_Witness ==
    \E f \in RetryFrames :
        /\ f.pc = "ret" /\ ~f.ok /\ ~f.exc
        /\ f.i = 1 /\ f.resyncs = 0
        /\ LiveMismatch(f.found, f.path)
        /\ f.uploaded = NoNode

\* the first attempt found a live folder of the file's name
C12_CollisionWitness ==
    \E f \in RetryFrames :
        /\ f.pc = "ret" /\ ~f.ok /\ f.i = 1 /\ f.resyncs = 0
        /\ LiveFolder(f.found)

\* the node the attempt of frame f has to verify
Candidate(f) == IF f.uploaded # NoNode THEN f.uploaded ELSE f.found

\* C13: a file upload that returned true compared, in its last attempt, the
\* local hash with the hash of the node for that name - the live file found,
\* or the node the attempt uploaded - and found them equal; an attempt that
\* uploaded goes on to the verification and returns what it finds
C13_VerifiedSuccess ==
    \A f \in RetryFrames :
        /\ (f.pc = "ret" /\ f.ok) =>
              /\ ~f.exc
              /\ f.verified # NoNode
              /\ f.verified = Candidate(f)
              /\ nodes[f.verified].hash = md5sum(f.path)
              /\ ~nodes[f.verified].is_folder
              /\ f.uploaded = NoNode => ~nodes[f.found].trashed
        /\ (~f.exc /\ f.uploaded # NoNode) =>
              /\ f.pc \in {"f_verify", "ret"}
              /\ f.pc = "ret" =>
                    (f.ok <=> nodes[f.uploaded].hash = md5sum(f.path))

\* C13 witness: an attempt uploaded the file, verified the new node and
\* returned true
C13_Witness ==
    \E f \in RetryFrames :
        /\ f.pc = "ret" /\ f.ok
        /\ f.uploaded # NoNode
        /\ f.verified = f.uploaded
        /\ nodes[f.uploaded].hash = md5sum(f.path)

\* an upload whose node has another hash has returned false
C13_MismatchWitness ==
    \E f \in RetryFrames :
        /\ f.pc = "ret" /\ ~f.ok /\ ~f.exc
        /\ f.uploaded # NoNode
        /\ nodes[f.uploaded].hash = Corrupt

\* the frames of _upload_directory that have looked their child up
DirectoryFrames ==
    {f \in AllFrames :
        \/ f.pc \in {"d_create", "d_poll", "d_poll_sync", "d_loop"}
        \/ f.pc = "ret" /\ (f.made \/ f.child # NoNode \/ f.found # NoNode) /\ f.i = 0}

\* C14 as claimed: a trashed child found by name never makes the entry fail
\* as a type collision: a file attempt that found one goes on to upload, a
\* directory that found one goes on to create_folder
C14_TrashedTreatedAsAbsent ==
    /\ \A f \in RetryFrames :
          (~f.exc /\ f.found # NoNode /\ nodes[f.found].trashed) =>
              (f.pc = "f_upload" \/ f.uploaded # NoNode)
    /\ \A f \in DirectoryFrames :
          (f.found # NoNode /\ nodes[f.found].trashed) =>
              (f.pc = "d_create" \/ f.made)

\* C15 as claimed: create_folder is called exactly when no child of the
\* name was found, or the child found is trashed, or the parent is trashed
C15_CreateExactlyWhenNeeded ==
    \A f \in DirectoryFrames :
        (f.pc = "d_create" \/ f.made) <=> needs_folder(f.found, f.node)

\* C16, state part: an active job's key is registered; until its first sync
\* has finished and its target is resolved it has no node, no frame and no
\* item result; every frame belongs to a job that has its node
C16_NothingBeforeTarget ==
    \A t \in Tasks :
        Active(t) =>
            /\ task[t].key \in jobs
            /\ task[t].pc = "m_sync" =>
                  (/\ task[t].sync \in {"wait", "held"}
                   /\ task[t].node = NoNode
                   /\ task[t].stack = << >>
                   /\ task[t].res = << >>)
            /\ task[t].pc = "m_resolve" =>
                  (/\ task[t].sync = "no"
                   /\ task[t].node = NoNode
                   /\ task[t].stack = << >>
                   /\ task[t].res = << >>)
            /\ task[t].stack # << >> =>
                  (/\ task[t].pc = "m_items"
                   /\ task[t].node # NoNode
                   /\ task[t].stack[1].node = task[t].node)

\* C16, step part: an accepted call registers its key and waits for _sync;
\* the job leaves that wait only by the step that ends a sync it ran itself;
\* it gets to its items only by the step that resolves the target to a node
C16_StepsInOrder ==
    \A t \in Tasks :
        /\ (task[t].pc = "idle" /\ task'[t].pc # "idle") =>
              (/\ task'[t].pc = "m_sync"
               /\ task'[t].key \notin jobs
               /\ task'[t].key \in jobs')
        /\ (task[t].pc = "m_sync" /\ task'[t].pc \notin {"m_sync", "idle"}) =>
              (/\ task'[t].pc = "m_resolve"
               /\ task[t].sync = "held"
               /\ sync_lock = t
               /\ nodes' \in sync_outcomes)
        /\ (task[t].pc = "m_resolve" /\ task'[t].pc \notin {"m_resolve", "idle"}) =>
              (/\ task'[t].pc = "m_items"
               /\ task'[t].node \in get_node_by_path(task[t].rpath) \ {NoNode}
               /\ task'[t].stack = << >>)
        /\ (task[t].pc = "m_items" /\ task'[t].pc # "m_items") =>
              task'[t].pc = "idle"

\* C16: register, sync, resolve, then the items
C16_StepOrdering == [] C16_NothingBeforeTarget /\ [][C16_StepsInOrder]_vars

\* C16 witness: a job with its key registered and its target resolved is
\* at the first step of its first item
C16_Witness ==
    \E t \in Tasks :
        /\ task[t].pc = "m_items"
        /\ task[t].key \in jobs
        /\ task[t].node # NoNode
        /\ task[t].res = << >>
        /\ Depth(t) = 1
        /\ Top(task[t]) = Frame(task[t].node, task[t].items[1])

\* C17, state part: the key of every active job is registered, whatever
\* other jobs have done
C17_ActiveKeysRegistered ==
    \A t \in Tasks : Active(t) => task[t].key \in jobs

\* C17, step part: a call whose key is not registered is accepted and adds
\* its key; a job that completes removes its own key and no other
C17_AcceptsAndRemovesOwnKey ==
    \A t \in Tasks :
        /\ (CallStep(t) /\ CalledKey(t) \notin jobs) =>
              (/\ Active(t)'
               /\ jobs' = jobs \cup {CalledKey(t)})
        /\ (Active(t) /\ ~Active(t)') => jobs' = jobs \ {task[t].key}

\* C17: jobs with different keys do not exclude one another
C17_DistinctKeysIndependent ==
    [] C17_ActiveKeysRegistered /\ [][C17_AcceptsAndRemovesOwnKey]_vars

\* C17 witness: two jobs with different keys are active, both registered
C17_Witness ==
    \E t, u \in Tasks :
        /\ Active(t) /\ Active(u)
        /\ task[t].key # task[u].key
        /\ jobs = {task[t].key, task[u].key}
        /\ Cardinality(jobs) = Cardinality(Tasks)

\* one of two concurrent jobs has completed; the other is still registered
C17_CompletionWitness ==
    \E t, u \in Tasks :
        /\ Active(u) /\ ~Active(t)
        /\ task[t].rets # << >>
        /\ Last(task[t].rets).ret = "true"
        /\ Last(task[t].rets).key # task[u].key
        /\ task[u].stack # << >>
        /\ jobs = {task[u].key}

-----------------------------------------------------------------------------
(* Properties of the hosting process                                        *)

\* the callbacks added to the IOLoop so far, run or not, in order
Added == [k \in DOMAIN ioloop.ran |-> ioloop.ran[k].args] \o ioloop.queue

\* C11 as claimed: a modification event of the log is handled by reading the
\* new text (on_modified raises nothing), and every callback the watcher
\* added is a call upload_torrent accepts, so that the IOLoop running it
\* enters the engine
C11_EventStartsUpload ==
    /\ ~handler.raised
    /\ \A k \in DOMAIN ioloop.ran : ioloop.ran[k].outcome = "called"
    /\ \A k \in DOMAIN Added : Len(Added[k]) = Len(upload_torrent_parameters)

\* the resources held: entered and not yet exited
Held == Range(bundle.acquired) \ Range(bundle.released)

\* C18: the resources are entered in the order drive, queue, curl, pool;
\* when entering has failed nothing is held and what had been entered was
\* exited, last first; after __aexit__ all four were exited in the reverse
\* order and every reference is None; in between, exactly the entered ones
\* are held
C18_BundleLifecycle ==
    /\ \E n \in 0 .. Len(Resources) : bundle.acquired = SubSeq(Resources, 1, n)
    /\ bundle.pc = "failed" =>
          /\ Held = {}
          /\ bundle.released = Reverse(bundle.acquired)
          /\ bundle.raii = {}
    /\ bundle.pc = "exited" =>
          /\ Held = {}
          /\ bundle.acquired = Resources
          /\ bundle.released = Reverse(Resources)
          /\ bundle.refs = {}
          /\ bundle.raii = {}
    /\ bundle.pc = "entered" =>
          /\ Held = Range(Resources)
          /\ bundle.refs = Range(Resources)
          /\ bundle.raii = {Resources}
          /\ bundle.released = << >>
    /\ bundle.pc \in {"new", "entering"} =>
          /\ Held = Range(bundle.stack)
          /\ bundle.stack = bundle.acquired
          /\ bundle.released = << >>

\* C18 witness: the uploader was entered and left again: four resources
\* exited, the pool first and the drive last
C18_Witness ==
    /\ bundle.pc = "exited"
    /\ bundle.released = <<"pool", "curl", "queue", "drive">>
    /\ bundle.refs = {}

\* entering the HTTP client failed: the queue, then the drive were exited
C18_PartialWitness ==
    /\ bundle.pc = "failed"
    /\ bundle.acquired = <<"drive", "queue">>
    /\ bundle.released = <<"queue", "drive">>

-----------------------------------------------------------------------------
(* Termination                                                              *)

\* C19 as claimed: every accepted call eventually completes (and with it
\* releases its key), whatever the remote answers, as long as every single
\* remote call comes back
C19_EveryCallCompletes == \A t \in Tasks : Active(t) ~> ~Active(t)

-----------------------------------------------------------------------------
(* The lines of the log                                                     *)

\* the text the handler has read so far
Consumed == SubSeq(Concat(log), 1, handler.index)

\* the names in the finished-download lines of a text, in order
Finished(text) ==
    LET hits == SelectSeq(readlines(text), match)
    IN  [k \in DOMAIN hits |-> group1(hits[k])]

\* the unterminated line at the end of a text
Partial(text) ==
    LET ls == readlines(text)
    IN  IF ls = << >> \/ endswith_newline(Last(ls)) THEN << >> ELSE Last(ls)

\* C20 as claimed: however the text was cut into chunks, the callbacks added
\* are one for each complete line of the text read so far that reports a
\* finished download, in the order of the log, and the buffer holds the
\* unterminated rest of that text
C20_LineReassembly ==
    /\ Added = [k \in DOMAIN Finished(Consumed) |->
                   callback_args(Finished(Consumed)[k])]
    /\ Concat(handler.lines) = Partial(Consumed)

=============================================================================
